---------------------------- MODULE Spec2Model ----------------------------
(***************************************************************************)
(* Model of week3d1_helper_general.py (week3d1_helper.py is the same code  *)
(* with the city name fixed to "Springfield").                             *)
(*                                                                         *)
(* Text is modelled as a sequence of one-character strings, so that the    *)
(* string operations of the code (split, strip, startswith, "in", the      *)
(* regular expressions) are computed character by character.               *)
(***************************************************************************)
EXTENDS Integers, Sequences, FiniteSets, TLC

VARIABLES
    pc,             \* position in the running function
    server,         \* what the wiki content API holds for the page: text
    content,        \* create_cities_geodataframe: content (None before/without)
    lines,          \* parse_us_cities_from_wikitext: lines
    lineNo,         \* index of the next line the for loop visits
    in_us_section,  \* parse_us_cities_from_wikitext: in_us_section
    cities,         \* the list of candidate entries
    emitted,        \* history: line numbers whose visit appended a record
    i,              \* get_coordinates_batch: loop variable i (0-based offset)
    results,        \* get_coordinates_batch: results
    requests,       \* history: the title list of every batch request issued
    outcomes,       \* history: per request, what came back
    log,            \* what was printed, in order
    exc,            \* the exception that left the function, or None
    cities_gdf,     \* the table handed to / returned by the functions
    cache,          \* whether data/us_states.zip exists
    downloads,      \* history: number of boundary downloads issued
    calls,          \* history: number of join_cities_to_states calls made
    joined,         \* join_cities_to_states: joined
    state_counts    \* analyze_cities_distribution: state_counts

vars == <<pc, server, content, lines, lineNo, in_us_section, cities, emitted,
          i, results, requests, outcomes, log, exc, cities_gdf, cache,
          downloads, calls, joined, state_counts>>

\* Python's None / pandas' null, kept apart from every text (no text has a
\* four-character element).
None == <<"None">>

---------------------------------------------------------------------------
(* Bounds of the model                                                     *)

MaxLines == 3

---------------------------------------------------------------------------
(* str operations                                                          *)

Whitespace == {" ", "\t", "\r", "\n"}

RECURSIVE LStrip(_)
LStrip(s) ==
    IF s # <<>> /\ Head(s) \in Whitespace THEN LStrip(Tail(s)) ELSE s

RECURSIVE RStrip(_)
RStrip(s) ==
    IF s # <<>> /\ s[Len(s)] \in Whitespace
    THEN RStrip(SubSeq(s, 1, Len(s) - 1))
    ELSE s

\* str.strip()
Strip(s) == RStrip(LStrip(s))

\* str.startswith(prefix)
StartsWith(s, prefix) ==
    /\ Len(prefix) <= Len(s)
    /\ SubSeq(s, 1, Len(prefix)) = prefix

\* needle in s
Contains(s, needle) ==
    \E p \in 1..(Len(s) - Len(needle) + 1) :
        SubSeq(s, p, p + Len(needle) - 1) = needle

\* s.find(ch) + 1 for a single character: the first index of ch, 0 if none
RECURSIVE FindFrom(_, _, _)
FindFrom(s, ch, p) ==
    IF p > Len(s) THEN 0
    ELSE IF s[p] = ch THEN p
    ELSE FindFrom(s, ch, p + 1)

Find(s, ch) == FindFrom(s, ch, 1)

\* s.split(ch)[0]
SplitHead(s, ch) ==
    LET p == Find(s, ch) IN IF p = 0 THEN s ELSE SubSeq(s, 1, p - 1)

\* s.split(ch, 1)[1], for s that holds ch
SplitRest(s, ch) == SubSeq(s, Find(s, ch) + 1, Len(s))

\* s.split(ch)
RECURSIVE Split(_, _)
Split(s, ch) ==
    LET p == Find(s, ch)
    IN  IF p = 0 THEN <<s>>
        ELSE <<SubSeq(s, 1, p - 1)>> \o Split(SubSeq(s, p + 1, Len(s)), ch)

\* ch.join(parts)
RECURSIVE Join(_, _)
Join(parts, ch) ==
    IF parts = <<>> THEN <<>>
    ELSE IF Len(parts) = 1 THEN parts[1]
    ELSE parts[1] \o <<ch>> \o Join(Tail(parts), ch)

\* the sequences of a sequence, one after the other
RECURSIVE ConcatAll(_)
ConcatAll(parts) ==
    IF Len(parts) = 0 THEN <<>>
    ELSE ConcatAll(SubSeq(parts, 1, Len(parts) - 1)) \o parts[Len(parts)]

---------------------------------------------------------------------------
(* parse_us_cities_from_wikitext                                           *)

US_HEADING ==
    <<"=", "=", "=", " ", "U", "n", "i", "t", "e", "d", " ",
      "S", "t", "a", "t", "e", "s", " ", "=", "=", "=">>

SECTION_MARK == <<"=", "=", "=">>

\* the end of the run of characters other than "]" that starts at p
RECURSIVE RunEnd(_, _)
RunEnd(s, p) ==
    IF p > Len(s) \/ s[p] = "]" THEN p ELSE RunEnd(s, p + 1)

\* re.search(r'\[\[([^\]]+)\]\]', line): group(1) of the leftmost match, or
\* None. At a start position the greedy [^\]]+ takes the whole run of
\* non-"]" characters; giving characters back cannot help, since "]]" would
\* then have to begin inside the run.
RECURSIVE LinkSearchFrom(_, _)
LinkSearchFrom(s, p) ==
    IF p + 1 > Len(s) THEN None
    ELSE IF s[p] = "[" /\ s[p + 1] = "["
         THEN LET e == RunEnd(s, p + 2)
              IN  IF e > p + 2 /\ e + 1 <= Len(s) /\ s[e + 1] = "]"
                  THEN SubSeq(s, p + 2, e - 1)
                  ELSE LinkSearchFrom(s, p + 1)
         ELSE LinkSearchFrom(s, p + 1)

LinkSearch(line) == LinkSearchFrom(line, 1)

\* lines 69-70: the link target without its display text
EntryOf(link) == IF Find(link, "|") # 0 THEN SplitHead(link, "|") ELSE link

\* lines 74-79: the state label
StateInfo(entry) ==
    LET state_info == Strip(SplitRest(entry, ","))
    IN  IF Find(state_info, "(") # 0
        THEN Strip(SplitHead(state_info, "("))
        ELSE state_info

\* lines 74, 83: the city
Location(entry) == SplitHead(entry, ",")

\* lines 81-85: the record appended for an entry that holds a comma
CityRecord(entry) ==
    [title |-> entry, city |-> Location(entry), state |-> StateInfo(entry)]

\* LineRecords with line 58 testing the line as it is, not line.strip()
LineRecordsUnstripped(line) ==
    IF ~StartsWith(line, <<"*">>) THEN <<>>
    ELSE LET match == LinkSearch(line)
         IN  IF match = None THEN <<>>
             ELSE IF Find(EntryOf(match), ",") = 0 THEN <<>>
             ELSE <<CityRecord(EntryOf(match))>>

\* lines 58-85: the records one line of the section adds (none or one)
LineRecords(line) ==
    IF ~StartsWith(Strip(line), <<"*">>) THEN <<>>
    ELSE LET match == LinkSearch(line)
         IN  IF match = None THEN <<>>
             ELSE IF Find(EntryOf(match), ",") = 0 THEN <<>>
             ELSE <<CityRecord(EntryOf(match))>>

\* line 50
IsUSHeading(line) == Contains(line, US_HEADING)

\* line 54
EndsSection(in_section, line) == in_section /\ StartsWith(line, SECTION_MARK)


\* lines 48-85: one visit of the for loop, from the state (in_section, found)
\* to the state after it; stop is the break of line 55
VisitLine(in_section, found, line) ==
    IF IsUSHeading(line)
    THEN [in_section |-> TRUE, found |-> found, stop |-> FALSE]
    ELSE IF EndsSection(in_section, line)
    THEN [in_section |-> in_section, found |-> found, stop |-> TRUE]
    ELSE [in_section |-> in_section,
          found |-> IF in_section THEN found \o LineRecords(line) ELSE found,
          stop |-> FALSE]

---------------------------------------------------------------------------
(* The pages the wiki content API may hold                                 *)

L_US == US_HEADING
L_CA == <<"=", "=", "=", " ", "C", "a", " ", "=", "=", "=">>
L_H2 == <<"=", "=", " ", "O", " ", "=", "=">>
L_PLAIN == <<"*", " ", "[", "[", "S", ",", " ", "O", "]", "]">>
L_ALIAS == <<" ", "*", " ", "[", "[", "S", " ", ",", " ", "O", " ", "(", "t", ")", "|", "S", "]", "]">>
L_NOCOMMA == <<"*", " ", "[", "[", "S", " ", "m", "]", "]">>
L_NOBULLET == <<"[", "[", "S", ",", " ", "I", "]", "]">>
L_SECOND == <<"*", " ", "[", "[", "]", "]", " ", "[", "[", "S", ",", " ", "I", "]", "]">>
L_NOLINK == <<"*", " ", "S", ",", " ", "O">>

LineChoices ==
    {L_US, L_CA, L_H2, L_PLAIN, L_ALIAS, L_NOCOMMA, L_NOBULLET, L_SECOND,
     L_NOLINK}

SeqsUpTo(S, n) == UNION {[1..k -> S] : k \in 0..n}

Wikitexts == {Join(ls, "\n") : ls \in SeqsUpTo(LineChoices, MaxLines)}

---------------------------------------------------------------------------
(* get_coordinates_batch: the coordinates of one page                      *)

\* line 98
batch_size == 50

Digits == {"0", "1", "2", "3", "4", "5", "6", "7", "8", "9"}

DigitVal(ch) ==
    CASE ch = "0" -> 0 [] ch = "1" -> 1 [] ch = "2" -> 2 [] ch = "3" -> 3
      [] ch = "4" -> 4 [] ch = "5" -> 5 [] ch = "6" -> 6 [] ch = "7" -> 7
      [] ch = "8" -> 8 [] ch = "9" -> 9

RECURSIVE NatVal(_)
NatVal(ds) ==
    IF ds = <<>> THEN 0
    ELSE 10 * NatVal(SubSeq(ds, 1, Len(ds) - 1)) + DigitVal(ds[Len(ds)])

\* float(field) for the fields the model reads: an optional sign and decimal
\* digits, with surrounding whitespace allowed; anything else raises
\* ValueError. (Fractions and exponents are left out of the model's inputs.)
Unsigned(field) ==
    IF Strip(field) # <<>> /\ Head(Strip(field)) \in {"+", "-"}
    THEN Tail(Strip(field))
    ELSE Strip(field)

IsFloat(field) ==
    /\ Unsigned(field) # <<>>
    /\ \A k \in 1..Len(Unsigned(field)) : Unsigned(field)[k] \in Digits

FloatVal(field) ==
    IF Head(Strip(field)) = "-"
    THEN 0 - NatVal(Unsigned(field))
    ELSE NatVal(Unsigned(field))

\* str.upper() on the letters the hemisphere fields hold
UpperChar(ch) ==
    CASE ch = "n" -> "N" [] ch = "s" -> "S" [] ch = "e" -> "E"
      [] ch = "w" -> "W" [] OTHER -> ch

Upper(s) == [k \in 1..Len(s) |-> UpperChar(s[k])]

\* re.IGNORECASE on the letters of the template name
LowerChar(ch) ==
    CASE ch = "C" -> "c" [] ch = "O" -> "o" [] ch = "R" -> "r"
      [] ch = "D" -> "d" [] OTHER -> ch

Lower(s) == [k \in 1..Len(s) |-> LowerChar(s[k])]

COORD_MARK == <<"{", "{", "c", "o", "o", "r", "d", "|">>

NoFields == <<None>>

\* the end of the run of characters other than "|" and "}" that starts at p
RECURSIVE FieldEnd(_, _)
FieldEnd(s, p) ==
    IF p > Len(s) \/ s[p] \in {"|", "}"} THEN p ELSE FieldEnd(s, p + 1)

\* n groups ([^|}]+) separated by \| and starting at p: the groups, or
\* NoFields. Each group is greedy and takes its whole run.
RECURSIVE FieldsFrom(_, _, _)
FieldsFrom(s, p, n) ==
    LET e == FieldEnd(s, p)
    IN  IF e = p THEN NoFields
        ELSE IF n = 1 THEN <<SubSeq(s, p, e - 1)>>
        ELSE IF e > Len(s) \/ s[e] # "|" THEN NoFields
        ELSE LET rest == FieldsFrom(s, e + 1, n - 1)
             IN  IF rest = NoFields THEN NoFields
                 ELSE <<SubSeq(s, p, e - 1)>> \o rest

\* line 137: re.search of the eight-field coord template, leftmost match
RECURSIVE CoordSearchFrom(_, _)
CoordSearchFrom(s, p) ==
    IF p + Len(COORD_MARK) - 1 > Len(s) THEN NoFields
    ELSE IF s[p] = "{"
              /\ Lower(SubSeq(s, p, p + Len(COORD_MARK) - 1)) = COORD_MARK
         THEN LET groups == FieldsFrom(s, p + Len(COORD_MARK), 8)
              IN  IF groups # NoFields THEN groups
                  ELSE CoordSearchFrom(s, p + 1)
         ELSE CoordSearchFrom(s, p + 1)

CoordSearch(text) == CoordSearchFrom(text, 1)

\* lines 142-143, in units of 1/3600 degree (so that minutes/60 and
\* seconds/3600 stay integers)
Degrees(deg, min, sec) ==
    3600 * FloatVal(deg) + 60 * FloatVal(min) + FloatVal(sec)

\* Signed comparing the hemisphere field as written, without upper()
SignedAsWritten(value, dir, negative) ==
    IF dir = <<negative>> THEN 0 - value ELSE value

\* lines 145-148
Signed(value, dir, negative) ==
    IF Upper(dir) = <<negative>> THEN 0 - value ELSE value

\* lines 139-155: the coordinates of a matched template, <<>> on ValueError
TemplateCoordinates(f) ==
    IF \A k \in {1, 2, 3, 5, 6, 7} : IsFloat(f[k])
    THEN <<[lat |-> Signed(Degrees(f[1], f[2], f[3]), f[4], "S"),
            lon |-> Signed(Degrees(f[5], f[6], f[7]), f[8], "W")]>>
    ELSE <<>>

\* PageCoordinates with the revision text tried before the coordinates
\* property
PageCoordinatesTextFirst(page) ==
    IF "revisions" \in DOMAIN page /\ page.revisions # <<>>
          /\ CoordSearch(page.revisions[1].star) # NoFields
    THEN TemplateCoordinates(CoordSearch(page.revisions[1].star))
    ELSE IF "coordinates" \in DOMAIN page
    THEN <<[lat |-> page.coordinates[1].lat, lon |-> page.coordinates[1].lon]>>
    ELSE <<>>

\* lines 124-155: coordinates of a page, <<>> for None
PageCoordinates(page) ==
    IF "coordinates" \in DOMAIN page
    THEN <<[lat |-> page.coordinates[1].lat, lon |-> page.coordinates[1].lon]>>
    ELSE IF "revisions" \in DOMAIN page /\ page.revisions # <<>>
    THEN LET coord_match == CoordSearch(page.revisions[1].star)
         IN  IF coord_match # NoFields
             THEN TemplateCoordinates(coord_match)
             ELSE <<>>
    ELSE <<>>

\* line 120: index in the batch of the first entry with the page's title, 0
\* for None
Original(batch, page) ==
    IF \E k \in 1..Len(batch) : batch[k].title = page.title
    THEN CHOOSE k \in 1..Len(batch) :
            /\ batch[k].title = page.title
            /\ \A j \in 1..(k - 1) : batch[j].title # page.title
    ELSE 0

\* line 164: page.get('canonicalurl', '')
PageUrl(page) ==
    IF "canonicalurl" \in DOMAIN page THEN page.canonicalurl ELSE <<>>

\* lines 120-165: the records one returned page adds (none or one)
PageRecords(batch, page) ==
    LET original == Original(batch, page)
        coordinates == PageCoordinates(page)
    IN  IF original = 0 THEN <<>>
        ELSE IF coordinates = <<>> THEN <<>>
        ELSE <<[title |-> page.title,
                city |-> batch[original].city,
                state |-> batch[original].state,
                latitude |-> coordinates[1].lat,
                longitude |-> coordinates[1].lon,
                url |-> PageUrl(page)]>>

\* the elements of a sequence of sequences of length 0 or 1, in order
Flatten(parts) ==
    LET kept == SelectSeq(parts, LAMBDA part : part # <<>>)
    IN  [k \in 1..Len(kept) |-> kept[k][1]]

\* lines 119-165: the records of the pages of one response, in page order
PagesRecords(batch, pages) ==
    Flatten([k \in 1..Len(pages) |-> PageRecords(batch, pages[k])])

DataRecords(batch, data) ==
    IF "query" \in DOMAIN data /\ "pages" \in DOMAIN data.query
    THEN PagesRecords(batch, data.query.pages)
    ELSE <<>>

\* Batch with the slice cities[i:i + batch_size + 1]
BatchOneMore(list, from) ==
    SubSeq(list, from + 1,
           IF from + batch_size + 1 < Len(list)
           THEN from + batch_size + 1
           ELSE Len(list))

\* line 100: cities[i:i + batch_size]
Batch(list, from) ==
    SubSeq(list, from + 1,
           IF from + batch_size < Len(list) THEN from + batch_size ELSE Len(list))

\* line 101
Titles(batch) == [k \in 1..Len(batch) |-> batch[k].title]

---------------------------------------------------------------------------
(* The answers the wiki coordinates API may give to a batch request        *)

MaxFreeTitles == 3

Template(mark, fields) == mark \o Join(fields, "|") \o <<"}", "}">>

\* {{Coord|39|55|0|N|83|48|0|W|display=title}}: 143700, -301680
T_NORTH_WEST ==
    Template(<<"{", "{", "C", "o", "o", "r", "d", "|">>,
             <<<<"3", "9">>, <<"5", "5">>, <<"0">>, <<"N">>, <<"8", "3">>, <<"4", "8">>, <<"0">>, <<"W">>, <<"d", "i", "s", "p", "l", "a", "y", "=", "t", "i", "t", "l", "e">>>>)

\* {{coord|10|30|0|s|20|0|36|E}}: -37800, 72036
T_SOUTH_EAST ==
    Template(COORD_MARK, <<<<"1", "0">>, <<"3", "0">>, <<"0">>, <<"s">>, <<"2", "0">>, <<"0">>, <<"3", "6">>, <<"E">>>>)

\* {{coord|a|55|0|N|83|48|0|W}}: eight fields, the first not a number
T_NOT_A_NUMBER ==
    Template(COORD_MARK, <<<<"a">>, <<"5", "5">>, <<"0">>, <<"N">>, <<"8", "3">>, <<"4", "8">>, <<"0">>, <<"W">>>>)

\* {{coord|1|2}}: fewer than eight fields
T_SHORT == Template(COORD_MARK, <<<<"1">>, <<"2">>>>)

URL == <<"u">>

PageKinds ==
    {"coords", "coordsZero", "tmpl", "tmplSouth", "tmplBad", "noTmpl",
     "emptyRev", "bare", "renamed", "absent"}

\* the page the API returns for a requested title, by kind (absent: none)
PageOf(kind, title) ==
    CASE kind = "coords" ->
           <<[title |-> title,
              coordinates |-> <<[lat |-> 158400, lon |-> 0 - 324000],
                                [lat |-> 7, lon |-> 7]>>,
              revisions |-> <<[star |-> T_SOUTH_EAST]>>,
              canonicalurl |-> URL]>>
      [] kind = "coordsZero" ->
           <<[title |-> title, coordinates |-> <<[lat |-> 0, lon |-> 0]>>]>>
      [] kind = "tmpl" ->
           <<[title |-> title,
              revisions |-> <<[star |-> <<"x">> \o T_SHORT \o T_NORTH_WEST
                                           \o T_SOUTH_EAST]>>,
              canonicalurl |-> URL]>>
      [] kind = "tmplSouth" ->
           <<[title |-> title, revisions |-> <<[star |-> T_SOUTH_EAST]>>]>>
      [] kind = "tmplBad" ->
           <<[title |-> title,
              revisions |-> <<[star |-> T_NOT_A_NUMBER \o T_NORTH_WEST]>>,
              canonicalurl |-> URL]>>
      [] kind = "noTmpl" ->
           <<[title |-> title, revisions |-> <<[star |-> <<"x">> \o T_SHORT]>>,
              canonicalurl |-> URL]>>
      [] kind = "emptyRev" ->
           <<[title |-> title, revisions |-> <<>>, canonicalurl |-> URL]>>
      [] kind = "bare" -> <<[title |-> title]>>
      [] kind = "renamed" ->
           <<[title |-> title \o <<"_">>,
              coordinates |-> <<[lat |-> 158400, lon |-> 0 - 324000]>>,
              canonicalurl |-> URL]>>
      [] kind = "absent" -> <<>>

\* the distinct titles of a request, in order of first occurrence: the API
\* answers with one page per distinct title
Distinct(ts) ==
    LET first == SelectSeq([k \in 1..Len(ts) |-> k],
                           LAMBDA k : \A j \in 1..(k - 1) : ts[j] # ts[k])
    IN  [k \in 1..Len(first) |-> ts[first[k]]]

\* which kind of page each distinct title has: every assignment for a short
\* request, a few regular ones for a long request
KindAssignments(n) ==
    IF n <= MaxFreeTitles
    THEN [1..n -> PageKinds]
    ELSE {[k \in 1..n |-> "coords"], [k \in 1..n |-> "tmpl"],
          [k \in 1..n |-> "bare"],
          [k \in 1..n |-> IF k % 2 = 1 THEN "coordsZero" ELSE "tmplBad"]}

PagesOf(ts, kinds) ==
    Flatten([k \in 1..Len(ts) |-> PageOf(kinds[k], ts[k])])

Reverse(s) == [k \in 1..Len(s) |-> s[Len(s) + 1 - k]]

\* the response is keyed by page id: its pages come in an order of its own
PageOrders(pages, n) ==
    IF n <= MaxFreeTitles THEN {pages, Reverse(pages)} ELSE {pages}

JsonResponses(titles) ==
    LET ts == Distinct(titles)
    IN  {[kind |-> "json", data |-> [batchcomplete |-> <<>>]]}
        \cup {[kind |-> "json", data |-> [query |-> [pages |-> pages]]] :
                pages \in UNION {PageOrders(PagesOf(ts, a), Len(ts)) :
                                   a \in KindAssignments(Len(ts))}}

---------------------------------------------------------------------------
(* create_cities_geodataframe                                              *)

Init ==
    /\ pc = "start"
    /\ server \in Wikitexts
    /\ content = None
    /\ lines = <<>>
    /\ lineNo = 0
    /\ in_us_section = FALSE
    /\ cities = <<>>
    /\ emitted = <<>>
    /\ i = 0
    /\ results = <<>>
    /\ requests = <<>>
    /\ outcomes = <<>>
    /\ log = <<>>
    /\ exc = "none"
    /\ cities_gdf = <<>>
    /\ cache = FALSE
    /\ downloads = 0
    /\ calls = 0
    /\ joined = <<>>
    /\ state_counts = <<>>

\* lines 178-186 and 24-29, 42-46: the page is fetched and the parser entered
FetchOk ==
    /\ pc = "start"
    /\ content' = server
    /\ lines' = Split(server, "\n")
    /\ lineNo' = 1
    /\ in_us_section' = FALSE
    /\ cities' = <<>>
    /\ log' = log \o <<"Fetching disambiguation page", "Parsing locations">>
    /\ pc' = "parse"
    /\ UNCHANGED <<server, emitted, i, results, requests, outcomes, exc,
                   cities_gdf, cache, downloads, calls, joined, state_counts>>

\* lines 24-25, 33-35, 181-182: the request raises a RequestException
FetchRequestException ==
    /\ pc = "start"
    /\ content' = None
    /\ log' = log \o <<"Fetching disambiguation page",
                       "Error fetching disambiguation page">>
    /\ exc' = "ValueError: Failed to fetch disambiguation page content"
    /\ pc' = "raised"
    /\ UNCHANGED <<server, lines, lineNo, in_us_section, cities, emitted, i,
                   results, requests, outcomes, cities_gdf, cache, downloads,
                   calls, joined, state_counts>>

\* lines 28-31: the response has no parse/wikitext field; the ValueError is
\* no RequestException, so line 33 does not catch it and it leaves
\* get_disambiguation_content and create_cities_geodataframe
FetchMalformed ==
    /\ pc = "start"
    /\ log' = log \o <<"Fetching disambiguation page">>
    /\ exc' = "ValueError: Unexpected API response structure"
    /\ pc' = "raised"
    /\ UNCHANGED <<server, content, lines, lineNo, in_us_section, cities,
                   emitted, i, results, requests, outcomes, cities_gdf, cache,
                   downloads, calls, joined, state_counts>>

\* lines 48-85: one visit of the for loop; line 87 after the last
ParseLine ==
    /\ pc = "parse"
    /\ LET v == VisitLine(in_us_section, cities, lines[lineNo])
       IN  /\ in_us_section' = v.in_section
           /\ cities' = v.found
           /\ emitted' = IF Len(v.found) > Len(cities)
                         THEN Append(emitted, lineNo)
                         ELSE emitted
           /\ pc' = IF v.stop \/ lineNo = Len(lines) THEN "parsed" ELSE "parse"
    /\ lineNo' = lineNo + 1
    /\ UNCHANGED <<server, content, lines, i, results, requests, outcomes,
                   log, exc, cities_gdf, cache, downloads, calls, joined,
                   state_counts>>

\* lines 187-191, 94-95
CallCoordinates ==
    /\ pc = "parsed"
    /\ log' = log \o <<"Found locations", "Fetching coordinates">>
    /\ i' = 0
    /\ results' = <<>>
    /\ pc' = "batch"
    /\ UNCHANGED <<server, content, lines, lineNo, in_us_section, cities,
                   emitted, requests, outcomes, exc, cities_gdf, cache,
                   downloads, calls, joined, state_counts>>

\* BatchRequestException with break in the place of line 169's continue
BatchRequestExceptionBreaks ==
    /\ pc = "batch"
    /\ i < Len(cities)
    /\ requests' = Append(requests, Titles(Batch(cities, i)))
    /\ outcomes' = Append(outcomes, [kind |-> "RequestException"])
    /\ log' = Append(log, "Error in batch coordinate request")
    /\ i' = Len(cities)
    /\ UNCHANGED <<pc, server, content, lines, lineNo, in_us_section, cities,
                   emitted, results, exc, cities_gdf, cache, downloads, calls,
                   joined, state_counts>>

\* lines 99-116, 167-169: the request of a batch raises a RequestException
BatchRequestException ==
    /\ pc = "batch"
    /\ i < Len(cities)
    /\ requests' = Append(requests, Titles(Batch(cities, i)))
    /\ outcomes' = Append(outcomes, [kind |-> "RequestException"])
    /\ log' = Append(log, "Error in batch coordinate request")
    /\ i' = i + batch_size
    /\ UNCHANGED <<pc, server, content, lines, lineNo, in_us_section, cities,
                   emitted, results, exc, cities_gdf, cache, downloads, calls,
                   joined, state_counts>>

\* lines 99-165: the request of a batch is answered
BatchResponse ==
    /\ pc = "batch"
    /\ i < Len(cities)
    /\ \E r \in JsonResponses(Titles(Batch(cities, i))) :
          /\ requests' = Append(requests, Titles(Batch(cities, i)))
          /\ outcomes' = Append(outcomes, r)
          /\ results' = results \o DataRecords(Batch(cities, i), r.data)
    /\ i' = i + batch_size
    /\ UNCHANGED <<pc, server, content, lines, lineNo, in_us_section, cities,
                   emitted, log, exc, cities_gdf, cache, downloads, calls,
                   joined, state_counts>>

\* shapely Point(xy) of line 195
Point(row) == [x |-> row.longitude, y |-> row.latitude]

\* lines 195-196: the table with its geometry column
GeoDataFrame(df) ==
    [k \in 1..Len(df) |->
        [title |-> df[k].title, city |-> df[k].city, state |-> df[k].state,
         latitude |-> df[k].latitude, longitude |-> df[k].longitude,
         url |-> df[k].url, geometry |-> Point(df[k])]]

\* line 171: the loop is over, get_coordinates_batch returns its table
BatchReturn ==
    /\ pc = "batch"
    /\ i >= Len(cities)
    /\ pc' = "coords_done"
    /\ UNCHANGED <<server, content, lines, lineNo, in_us_section, cities,
                   emitted, i, results, requests, outcomes, log, exc,
                   cities_gdf, cache, downloads, calls, joined, state_counts>>

\* lines 192-198: some coordinates were found
ReturnGeoDataFrame ==
    /\ pc = "coords_done"
    /\ results # <<>>
    /\ log' = Append(log, "Successfully retrieved coordinates")
    /\ cities_gdf' = GeoDataFrame(results)
    /\ pc' = "done"
    /\ UNCHANGED <<server, content, lines, lineNo, in_us_section, cities,
                   emitted, i, results, requests, outcomes, exc, cache,
                   downloads, calls, joined, state_counts>>

\* lines 192-195: results is empty; pd.DataFrame([]) has no columns and
\* cities_df['longitude'] raises KeyError
ReturnNoColumns ==
    /\ pc = "coords_done"
    /\ results = <<>>
    /\ log' = Append(log, "Successfully retrieved coordinates")
    /\ exc' = "KeyError: longitude"
    /\ pc' = "raised"
    /\ UNCHANGED <<server, content, lines, lineNo, in_us_section, cities,
                   emitted, i, results, requests, outcomes, cities_gdf, cache,
                   downloads, calls, joined, state_counts>>

Next ==
    \/ FetchOk
    \/ FetchRequestException
    \/ FetchMalformed
    \/ ParseLine
    \/ CallCoordinates
    \/ BatchRequestException
    \/ BatchResponse
    \/ BatchReturn
    \/ ReturnGeoDataFrame
    \/ ReturnNoColumns

Spec == Init /\ [][Next]_vars

---------------------------------------------------------------------------
(* get_coordinates_batch called on its own, with long candidate lists      *)

MaxBatches == 2

DigitChar(d) == <<"0", "1", "2", "3", "4", "5", "6", "7", "8", "9">>[d + 1]

RECURSIVE NatText(_)
NatText(n) ==
    IF n < 10 THEN <<DigitChar(n)>>
    ELSE Append(NatText(n \div 10), DigitChar(n % 10))

\* the candidate the parser makes of the link [[S<k>, O]]
Candidate(k) == CityRecord(<<"S">> \o NatText(k) \o <<",", " ", "O">>)

\* n candidates; repeat names the position that repeats the first title
\* (0: all titles differ)
CandidateList(n, repeat) ==
    [k \in 1..n |-> IF k = repeat THEN Candidate(1) ELSE Candidate(k)]

ListLengths ==
    {n \in 0..(MaxBatches * batch_size + 1) :
        n % batch_size \in {0, 1, batch_size - 1}}

CandidateLists ==
    {CandidateList(n, repeat) : n \in ListLengths, repeat \in {0, 2}}
    \cup {CandidateList(n, n) : n \in ListLengths \ {0, 1}}

InitBatch ==
    /\ pc = "batch"
    /\ server = <<>>
    /\ content = None
    /\ lines = <<>>
    /\ lineNo = 0
    /\ in_us_section = FALSE
    /\ cities \in CandidateLists
    /\ emitted = <<>>
    /\ i = 0
    /\ results = <<>>
    /\ requests = <<>>
    /\ outcomes = <<>>
    /\ log = <<>>
    /\ exc = "none"
    /\ cities_gdf = <<>>
    /\ cache = FALSE
    /\ downloads = 0
    /\ calls = 0
    /\ joined = <<>>
    /\ state_counts = <<>>

NextBatch ==
    \/ BatchRequestException
    \/ BatchResponse
    \/ BatchReturn

SpecBatch == InitBatch /\ [][NextBatch]_vars

---------------------------------------------------------------------------
(* The coord template of one page, resolved on its own                     *)

DegreeFields == {0, 39, 83}

MinuteFields == {0, 48, 55}

SecondFields == {0, 36}

HemisphereFields == {"N", "n", "S", "s", "E", "e", "W", "w"}

\* what a page states: degrees, minutes, seconds and hemisphere of the
\* latitude, then of the longitude
TemplateFields ==
    [latD : DegreeFields, latM : MinuteFields, latS : SecondFields,
     latH : HemisphereFields,
     lonD : DegreeFields, lonM : MinuteFields, lonS : SecondFields,
     lonH : HemisphereFields]

\* the revision text of such a page: {{coord|latD|latM|latS|latH|lonD|...}}
TemplateText(f) ==
    Template(COORD_MARK,
             <<NatText(f.latD), NatText(f.latM), NatText(f.latS), <<f.latH>>,
               NatText(f.lonD), NatText(f.lonM), NatText(f.lonS), <<f.lonH>>>>)

InitCoord ==
    /\ pc = "template"
    /\ server \in TemplateFields
    /\ content = TemplateText(server)
    /\ lines = <<>>
    /\ lineNo = 0
    /\ in_us_section = FALSE
    /\ cities = <<>>
    /\ emitted = <<>>
    /\ i = 0
    /\ results = <<>>
    /\ requests = <<>>
    /\ outcomes = <<>>
    /\ log = <<>>
    /\ exc = "none"
    /\ cities_gdf = <<>>
    /\ cache = FALSE
    /\ downloads = 0
    /\ calls = 0
    /\ joined = <<>>
    /\ state_counts = <<>>

\* lines 124-155 for a page that has the revision text and no coordinates
\* property
ResolveTemplate ==
    /\ pc = "template"
    /\ results' = PageCoordinates([title |-> <<"S">>,
                                   revisions |-> <<[star |-> content]>>])
    /\ pc' = "resolved"
    /\ UNCHANGED <<server, content, lines, lineNo, in_us_section, cities,
                   emitted, i, requests, outcomes, log, exc, cities_gdf,
                   cache, downloads, calls, joined, state_counts>>

NextCoord == ResolveTemplate

SpecCoord == InitCoord /\ [][NextCoord]_vars

---------------------------------------------------------------------------
(* Properties of the parser                                                *)

\* after trimming, the line starts with a bullet
Bulleted(line) ==
    \E p \in 1..Len(line) :
        /\ line[p] = "*"
        /\ \A q \in 1..(p - 1) : line[q] \in Whitespace

\* the spans <<p, q>> of the line that are a link: "[[" at p, "]]" at q and
\* a non-empty text without "]" between them
LinkSpans(line) ==
    {sp \in (1..Len(line)) \X (1..Len(line)) :
        /\ sp[2] >= sp[1] + 3
        /\ sp[2] + 1 <= Len(line)
        /\ line[sp[1]] = "[" /\ line[sp[1] + 1] = "["
        /\ line[sp[2]] = "]" /\ line[sp[2] + 1] = "]"
        /\ \A r \in (sp[1] + 2)..(sp[2] - 1) : line[r] # "]"}

\* the text of the first link of a line that has one
FirstLinkText(line) ==
    LET sp == CHOOSE a \in LinkSpans(line) :
                 \A b \in LinkSpans(line) : a[1] <= b[1]
    IN  SubSeq(line, sp[1] + 2, sp[2] - 1)

\* the part of a link text before its first pipe
LinkTarget(text) ==
    LET n == CHOOSE m \in 0..Len(text) :
                /\ \A r \in 1..m : text[r] # "|"
                /\ m = Len(text) \/ text[m + 1] = "|"
    IN  SubSeq(text, 1, n)

HasComma(text) == \E r \in 1..Len(text) : text[r] = ","

Qualifies(line) ==
    /\ Bulleted(line)
    /\ LinkSpans(line) # {}
    /\ HasComma(LinkTarget(FirstLinkText(line)))

\* The section as the scan delimits it: after the first line that holds the
\* heading, before the next line that starts with "===" and does not hold
\* the heading; a line that holds the heading is no line of the section.
\* (How the section is delimited is the subject of claim C12.)
HeadingLines(ls) == {h \in 1..Len(ls) : Contains(ls[h], US_HEADING)}

SectionStart(ls) ==
    CHOOSE h \in HeadingLines(ls) : \A g \in HeadingLines(ls) : h <= g

ClosingLines(ls) ==
    {e \in 1..Len(ls) :
        /\ e > SectionStart(ls)
        /\ StartsWith(ls[e], SECTION_MARK)
        /\ e \notin HeadingLines(ls)}

InSection(ls, k) ==
    /\ HeadingLines(ls) # {}
    /\ k > SectionStart(ls)
    /\ k \notin HeadingLines(ls)
    /\ \A e \in ClosingLines(ls) : k < e

QualifyingLines(ls) ==
    SelectSeq([k \in 1..Len(ls) |-> k],
              LAMBDA k : InSection(ls, k) /\ Qualifies(ls[k]))

\* C1: when the parser returns, its records are, in source line order, one
\* for each line of the "United States" section that starts with a bullet
\* after trimming and whose first link target holds a comma, each record
\* titled with that target, and there is no other record (duplicates kept).
C1_OneRecordPerQualifyingLine ==
    pc = "parsed" =>
        /\ Join(lines, "\n") = server
        /\ emitted = QualifyingLines(lines)
        /\ Len(cities) = Len(emitted)
        /\ \A j \in 1..Len(cities) :
              cities[j].title = LinkTarget(FirstLinkText(lines[emitted[j]]))

\* C1 witness: two lines of the section with the same title gave two records
C1_Witness ==
    /\ pc = "parsed"
    /\ Len(cities) = 2
    /\ cities[1].title = cities[2].title

\* C2 as claimed: every record has the link target before the first pipe as
\* title, the trimmed part left of the title's first comma as city, and the
\* trimmed part right of it, cut at the first "(" and trimmed again, as state.
C2_TitleCityStateAsClaimed ==
    Len(emitted) = Len(cities) =>
        \A j \in 1..Len(cities) :
            LET title == LinkTarget(FirstLinkText(lines[emitted[j]]))
                label == Strip(SplitRest(title, ","))
            IN  /\ cities[j].title = title
                /\ cities[j].city = Strip(SplitHead(title, ","))
                /\ cities[j].state = IF Find(label, "(") # 0
                                     THEN Strip(SplitHead(label, "("))
                                     ELSE label

---------------------------------------------------------------------------
(* Properties of the fetch                                                 *)

Logged(message) == \E k \in 1..Len(log) : log[k] = message

FetchFailed ==
    exc \in {"ValueError: Failed to fetch disambiguation page content",
             "ValueError: Unexpected API response structure"}

\* C3 as claimed: when the fetch of the disambiguation page fails (transport
\* error, or no parse/wikitext field), the failure is logged, the pipeline
\* has raised, the parser was not run, no batch request was issued and no
\* table was returned.
C3_FetchFailureLoggedAndAborts ==
    FetchFailed =>
        /\ Logged("Error fetching disambiguation page")
        /\ pc = "raised"
        /\ lines = <<>> /\ cities = <<>> /\ emitted = <<>>
        /\ requests = <<>>
        /\ results = <<>> /\ cities_gdf = <<>>

---------------------------------------------------------------------------
(* Properties of get_coordinates_batch                                     *)

NumBatches(n) == (n + batch_size - 1) \div batch_size

\* C4: when get_coordinates_batch returns it has issued ceil(N/50) requests,
\* each of 1 to 50 titles, and the requests' titles one after the other are
\* the titles of the candidate list (each candidate in exactly one batch,
\* batches in list order).
C4_ConsecutiveBatchesOfFifty ==
    pc = "coords_done" =>
        /\ Len(requests) = NumBatches(Len(cities))
        /\ \A r \in 1..Len(requests) :
              Len(requests[r]) >= 1 /\ Len(requests[r]) <= batch_size
        /\ ConcatAll(requests) = Titles(cities)

\* C4 witness: 101 candidates were requested in three batches
C4_Witness ==
    /\ pc = "coords_done"
    /\ Len(cities) = 2 * batch_size + 1
    /\ Len(requests) = 3
    /\ Len(requests[3]) = 1

Failed(r) == outcomes[r].kind = "RequestException"

\* the candidates of the r-th request
BatchOfRequest(r) ==
    SubSeq(cities, (r - 1) * batch_size + 1,
           (r - 1) * batch_size + Len(requests[r]))

\* C5: a batch whose request failed at the network level adds no record, is
\* logged once and is not requested again; all batches are requested, and
\* the returned table holds, in order, all records of the other batches.
C5_FailedBatchSkippedOthersKept ==
    pc = "coords_done" =>
        /\ Len(requests) = NumBatches(Len(cities))
        /\ ConcatAll(requests) = Titles(cities)
        /\ Cardinality({k \in 1..Len(log) :
                          log[k] = "Error in batch coordinate request"})
             = Cardinality({r \in 1..Len(requests) : Failed(r)})
        /\ results =
             ConcatAll([r \in 1..Len(requests) |->
                          IF Failed(r) THEN <<>>
                          ELSE DataRecords(BatchOfRequest(r),
                                           outcomes[r].data)])

\* C5 witness: of three batches the second failed, and the table holds
\* records of the first and of the third
C5_Witness ==
    /\ pc = "coords_done"
    /\ Len(requests) = 3
    /\ ~Failed(1) /\ Failed(2) /\ ~Failed(3)
    /\ \E a, b \in 1..Len(results) :
          /\ results[a].title = cities[1].title
          /\ results[b].title = cities[2 * batch_size + 1].title
          /\ cities[2 * batch_size + 1].title # cities[1].title

\* the pages of the r-th response (none without query/pages)
PagesOfResponse(r) ==
    IF ~Failed(r) /\ "query" \in DOMAIN outcomes[r].data
    THEN outcomes[r].data.query.pages
    ELSE <<>>

\* candidate k was resolved: the response to its batch holds a page with
\* its title that has coordinates
Resolved(k) ==
    \E p \in 1..Len(PagesOfResponse((k - 1) \div batch_size + 1)) :
        LET page == PagesOfResponse((k - 1) \div batch_size + 1)[p]
        IN  page.title = cities[k].title /\ PageCoordinates(page) # <<>>

\* C6 as claimed: the returned table has one record per resolved candidate
\* (also for a title that occurs more than once), each with the city and
\* state of a candidate of its title and with the canonical URL or the
\* empty text, and no record for any other title.
C6_OneRecordPerResolvedCandidate ==
    pc = "coords_done" =>
        /\ \A k \in 1..Len(cities) :
              Cardinality({a \in 1..Len(results) :
                             results[a].title = cities[k].title})
                = Cardinality({j \in 1..Len(cities) :
                                 cities[j].title = cities[k].title
                                 /\ Resolved(j)})
        /\ \A a \in 1..Len(results) :
              /\ \E k \in 1..Len(cities) :
                    /\ cities[k].title = results[a].title
                    /\ cities[k].city = results[a].city
                    /\ cities[k].state = results[a].state
              /\ results[a].url \in {URL, <<>>}

\* what the revision texts of the model hold, worked out by hand: the first
\* eight-field template and its value in 1/3600 degree
TextCoordinates(text) ==
    CASE text = <<"x">> \o T_SHORT \o T_NORTH_WEST \o T_SOUTH_EAST ->
           <<[lat |-> 143700, lon |-> 0 - 301680]>>
      [] text = T_SOUTH_EAST -> <<[lat |-> 0 - 37800, lon |-> 72036]>>
      [] text = T_NOT_A_NUMBER \o T_NORTH_WEST -> <<>>
      [] text = <<"x">> \o T_SHORT -> <<>>

\* the coordinates a page is to give, in the order of preference
ExpectedCoordinates(page) ==
    IF "coordinates" \in DOMAIN page THEN <<page.coordinates[1]>>
    ELSE IF "revisions" \in DOMAIN page /\ page.revisions # <<>>
    THEN TextCoordinates(page.revisions[1].star)
    ELSE <<>>

ExpectedPosition(batch, page) ==
    IF (\E k \in 1..Len(batch) : batch[k].title = page.title)
          /\ ExpectedCoordinates(page) # <<>>
    THEN <<[title |-> page.title,
            latitude |-> ExpectedCoordinates(page)[1].lat,
            longitude |-> ExpectedCoordinates(page)[1].lon]>>
    ELSE <<>>

Position(record) ==
    [title |-> record.title, latitude |-> record.latitude,
     longitude |-> record.longitude]

RecordFields == {"title", "city", "state", "latitude", "longitude", "url"}

\* C7: the records are, page by page in the order of the responses, those
\* of the matched pages that have coordinates: the first pair of the
\* coordinates property when the page has one (whatever its text holds),
\* else the first eight-field template of its text when its numbers parse;
\* any other page adds nothing, and the pages after it are still processed.
\* Every record has all its fields.
C7_CoordinateSourceByPreference ==
    /\ \A a \in 1..Len(results) : DOMAIN results[a] = RecordFields
    /\ [a \in 1..Len(results) |-> Position(results[a])]
         = ConcatAll([r \in 1..Len(requests) |->
                        Flatten([p \in 1..Len(PagesOfResponse(r)) |->
                                   ExpectedPosition(BatchOfRequest(r),
                                                    PagesOfResponse(r)[p])])])

\* C7 witness: a response whose first page has a template that does not
\* parse and whose second page has both the coordinates property and a
\* template gave one record, with the coordinates of the property
C7_Witness ==
    /\ pc = "coords_done"
    /\ Len(requests) = 1
    /\ Len(PagesOfResponse(1)) = 2
    /\ "coordinates" \notin DOMAIN PagesOfResponse(1)[1]
    /\ "revisions" \in DOMAIN PagesOfResponse(1)[1]
    /\ PagesOfResponse(1)[1].revisions
         = <<[star |-> T_NOT_A_NUMBER \o T_NORTH_WEST]>>
    /\ "coordinates" \in DOMAIN PagesOfResponse(1)[2]
    /\ "revisions" \in DOMAIN PagesOfResponse(1)[2]
    /\ Len(results) = 1
    /\ results[1].title = PagesOfResponse(1)[2].title
    /\ results[1].latitude = 158400

---------------------------------------------------------------------------
(* join_cities_to_states and analyze_cities_distribution                   *)

MaxRows == 2

MaxCalls == 2

\* The boundary file: states as rectangles x1 < x2, y1 < y2 on a grid, in
\* the reference system of the points.
OH == <<"O", "H">>
IN_ == <<"I", "N">>
AK == <<"A", "K">>
HI == <<"H", "I">>
PR == <<"P", "R">>

Rect(x1, x2, y1, y2) == [x1 |-> x1, x2 |-> x2, y1 |-> y1, y2 |-> y2]

\* Ohio and Indiana share the border x = 3; Alaska lies apart
StatesDisjoint ==
    <<[NAME |-> <<"O", "h">>, STUSPS |-> OH, geometry |-> Rect(0, 3, 0, 2)],
      [NAME |-> <<"I", "n", " ">>, STUSPS |-> IN_, geometry |-> Rect(3, 6, 0, 2)],
      [NAME |-> <<"A", "k">>, STUSPS |-> AK, geometry |-> Rect(0, 3, 4, 6)]>>

\* a file whose Ohio and Indiana overlap on 2 < x < 4
StatesOverlapping ==
    <<[NAME |-> <<"O", "h">>, STUSPS |-> OH, geometry |-> Rect(0, 4, 0, 2)],
      [NAME |-> <<"I", "n", " ">>, STUSPS |-> IN_, geometry |-> Rect(2, 6, 0, 2)],
      [NAME |-> <<"A", "k">>, STUSPS |-> AK, geometry |-> Rect(0, 3, 4, 6)]>>

StateFiles == {StatesDisjoint, StatesOverlapping}

\* lines 214-216 write response.content whatever the response is: the
\* file left by a response that is not the archive (an error page)
Unreadable == <<[content |-> "not a zip archive"]>>

\* Exists answering that there is no file, whatever is there
ExistsNever(file) == FALSE

\* line 212: os.path.exists(zip_path); the file is <<>> while it is absent
Exists(file) == file # <<>>

\* line 219: gpd.read_file reads the file, or raises
Readable(file) == file \in StateFiles

\* a call can follow a call that returned or raised
Callable == pc \in {"join", "joined", "join_raised"}

\* line 223
EXCLUDED == {AK, HI, PR}

Filtered(states_gdf) ==
    SelectSeq(states_gdf, LAMBDA st : st.STUSPS \notin EXCLUDED)

\* lines 226-229, 238
Renamed(states_gdf) ==
    [k \in 1..Len(states_gdf) |->
        [state_name |-> states_gdf[k].NAME,
         state_abbrev |-> states_gdf[k].STUSPS,
         geometry |-> states_gdf[k].geometry]]

\* lines 219-229: the states table the join reads from the file
StatesTable(file) == Renamed(Filtered(file))

\* lines 232-233
RenameState(row) ==
    IF "state" \in DOMAIN row
    THEN [f \in (DOMAIN row \ {"state"}) \cup {"state_from_wiki"} |->
            IF f = "state_from_wiki" THEN row.state ELSE row[f]]
    ELSE row

\* predicate='within': the point lies in the interior of the polygon
Within(point, polygon) ==
    /\ polygon.x1 < point.x /\ point.x < polygon.x2
    /\ polygon.y1 < point.y /\ point.y < polygon.y2

\* the rows an inner join gives for row k: none for a point within no polygon
JoinedRowsInner(k, row, states) ==
    LET hits == SelectSeq([m \in 1..Len(states) |-> m],
                          LAMBDA m : Within(row.geometry, states[m].geometry))
    IN  [h \in 1..Len(hits) |->
            row @@ [index |-> k,
                    state_name |-> states[hits[h]].state_name,
                    state_abbrev |-> states[hits[h]].state_abbrev]]

\* the rows gpd.sjoin(how='left') gives for row k of the left table: one
\* per polygon the point is within, or one with null state columns
JoinedRows(k, row, states) ==
    LET hits == SelectSeq([m \in 1..Len(states) |-> m],
                          LAMBDA m : Within(row.geometry, states[m].geometry))
    IN  IF hits = <<>>
        THEN <<row @@ [index |-> k, state_name |-> None,
                       state_abbrev |-> None]>>
        ELSE [h \in 1..Len(hits) |->
                row @@ [index |-> k,
                        state_name |-> states[hits[h]].state_name,
                        state_abbrev |-> states[hits[h]].state_abbrev]]

\* lines 236-241
SJoin(left, states) ==
    ConcatAll([k \in 1..Len(left) |-> JoinedRows(k, left[k], states)])

\* StateMatch comparing the texts as they are, not stripped
StateMatchUnstripped(row) ==
    IF row.state_from_wiki # None /\ row.state_name # None
    THEN row.state_from_wiki = row.state_name
    ELSE FALSE

\* lines 244-248
StateMatch(row) ==
    IF row.state_from_wiki # None /\ row.state_name # None
    THEN Strip(row.state_from_wiki) = Strip(row.state_name)
    ELSE FALSE

\* lines 219-249: the joined table with its state_match column
Joined(gdf, file) ==
    LET rows == SJoin([k \in 1..Len(gdf) |-> RenameState(gdf[k])],
                      StatesTable(file))
    IN  [k \in 1..Len(rows) |->
            rows[k] @@ [state_match |-> StateMatch(rows[k])]]

\* lines 252-255
Mismatches(table) == SelectSeq(table, LAMBDA row : ~row.state_match)

MismatchLog(table) ==
    IF Mismatches(table) # <<>>
    THEN <<"Found state name mismatches">>
    ELSE <<>>

\* the tables join_cities_to_states is called with: those
\* create_cities_geodataframe can return have at least one row
WikiStates == {<<"O", "h">>, <<" ", "O", "h">>, <<"o", "h">>, <<"I", "n">>, None}

Places == {[x |-> 1, y |-> 1], [x |-> 5, y |-> 1], [x |-> 3, y |-> 1],
           [x |-> 9, y |-> 9], [x |-> 1, y |-> 5]}

ResolvedPlaces ==
    {[title |-> <<"S">>, city |-> <<"S">>, state |-> st,
      latitude |-> pt.y, longitude |-> pt.x, url |-> <<>>] :
        st \in WikiStates, pt \in Places}

GeoDataFrames ==
    {GeoDataFrame(df) : df \in SeqsUpTo(ResolvedPlaces, MaxRows) \ {<<>>}}

InitJoin ==
    /\ pc = "join"
    /\ server = <<>>
    /\ content = None
    /\ lines = <<>>
    /\ lineNo = 0
    /\ in_us_section = FALSE
    /\ cities = <<>>
    /\ emitted = <<>>
    /\ i = 0
    /\ results = <<>>
    /\ requests = <<>>
    /\ outcomes = <<>>
    /\ log = <<>>
    /\ exc = "none"
    /\ cities_gdf \in GeoDataFrames
    /\ cache \in StateFiles \cup {<<>>}
    /\ downloads = 0
    /\ calls = 0
    /\ joined = <<>>
    /\ state_counts = <<>>

\* lines 205-257 with the file absent: it is downloaded and written first
JoinWithDownload ==
    /\ Callable
    /\ calls < MaxCalls
    /\ ~Exists(cache)
    /\ \E file \in StateFiles :
          /\ cache' = file
          /\ joined' = Joined(cities_gdf, file)
          /\ log' = log \o <<"Downloading US states data">>
                        \o MismatchLog(Joined(cities_gdf, file))
    /\ downloads' = downloads + 1
    /\ calls' = calls + 1
    /\ exc' = "none"
    /\ pc' = "joined"
    /\ UNCHANGED <<server, content, lines, lineNo, in_us_section, cities,
                   emitted, i, results, requests, outcomes, cities_gdf,
                   state_counts>>

\* lines 212-214 with the file absent and requests.get raising: the call
\* raises before line 215 opens the file
JoinDownloadRaises ==
    /\ Callable
    /\ calls < MaxCalls
    /\ ~Exists(cache)
    /\ log' = Append(log, "Downloading US states data")
    /\ downloads' = downloads + 1
    /\ calls' = calls + 1
    /\ exc' = "RequestException"
    /\ pc' = "join_raised"
    /\ UNCHANGED <<server, content, lines, lineNo, in_us_section, cities,
                   emitted, i, results, requests, outcomes, cities_gdf,
                   cache, joined, state_counts>>

\* lines 212-219 with the file absent and a response that is not the
\* archive: its content is written, and line 219 raises
JoinDownloadUnreadable ==
    /\ Callable
    /\ calls < MaxCalls
    /\ ~Exists(cache)
    /\ cache' = Unreadable
    /\ log' = Append(log, "Downloading US states data")
    /\ downloads' = downloads + 1
    /\ calls' = calls + 1
    /\ exc' = "read_file error"
    /\ pc' = "join_raised"
    /\ UNCHANGED <<server, content, lines, lineNo, in_us_section, cities,
                   emitted, i, results, requests, outcomes, cities_gdf,
                   joined, state_counts>>

\* lines 205-257 with the file present
JoinFromCache ==
    /\ Callable
    /\ calls < MaxCalls
    /\ Exists(cache)
    /\ Readable(cache)
    /\ joined' = Joined(cities_gdf, cache)
    /\ log' = log \o MismatchLog(Joined(cities_gdf, cache))
    /\ calls' = calls + 1
    /\ exc' = "none"
    /\ pc' = "joined"
    /\ UNCHANGED <<server, content, lines, lineNo, in_us_section, cities,
                   emitted, i, results, requests, outcomes, cities_gdf,
                   cache, downloads, state_counts>>

\* lines 212-219 with a file present that line 219 cannot read
JoinCacheUnreadable ==
    /\ Callable
    /\ calls < MaxCalls
    /\ Exists(cache)
    /\ ~Readable(cache)
    /\ calls' = calls + 1
    /\ exc' = "read_file error"
    /\ pc' = "join_raised"
    /\ UNCHANGED <<server, content, lines, lineNo, in_us_section, cities,
                   emitted, i, results, requests, outcomes, log, cities_gdf,
                   cache, downloads, joined, state_counts>>

\* pandas' null test on the group keys of a row
HasGroup(row) == row.state_name # None /\ row.state_abbrev # None

\* line 314: groupby drops the rows with a null key (dropna=True, the
\* default); the groups are the key pairs of the other rows
Groups(table) ==
    {<<table[k].state_name, table[k].state_abbrev>> :
        k \in {j \in 1..Len(table) : HasGroup(table[j])}}

\* line 314: .size()
GroupSize(table, g) ==
    Cardinality({k \in 1..Len(table) :
                   <<table[k].state_name, table[k].state_abbrev>> = g})

\* line 315: the orders sort_values('count', ascending=False) may give (the
\* default sort is not stable: equal counts come in any order)
Descending(table, groups) ==
    {order \in [1..Cardinality(groups) -> groups] :
        /\ \A a, b \in 1..Cardinality(groups) : a # b => order[a] # order[b]
        /\ \A a \in 1..(Cardinality(groups) - 1) :
              GroupSize(table, order[a]) >= GroupSize(table, order[a + 1])}

\* lines 314-315
StateCounts(table) ==
    {[k \in 1..Len(order) |->
        [state_name |-> order[k][1], state_abbrev |-> order[k][2],
         count |-> GroupSize(table, order[k])]] :
       order \in Descending(table, Groups(table))}

\* lines 309-320
Analyze ==
    /\ pc = "joined"
    /\ state_counts' \in StateCounts(joined)
    /\ log' = Append(log, "City Distribution by State")
    /\ pc' = "analyzed"
    /\ UNCHANGED <<server, content, lines, lineNo, in_us_section, cities,
                   emitted, i, results, requests, outcomes, exc, cities_gdf,
                   cache, downloads, calls, joined>>

NextJoin ==
    \/ JoinWithDownload
    \/ JoinDownloadRaises
    \/ JoinDownloadUnreadable
    \/ JoinFromCache
    \/ JoinCacheUnreadable
    \/ Analyze

SpecJoin == InitJoin /\ [][NextJoin]_vars

---------------------------------------------------------------------------
(* Properties of the join                                                  *)

Returned == pc \in {"joined", "analyzed"}

\* t is s without its leading and trailing whitespace
IsTrimOf(t, s) ==
    \E a, b \in 0..Len(s) :
        /\ a + b <= Len(s)
        /\ t = SubSeq(s, a + 1, Len(s) - b)
        /\ \A k \in 1..a : s[k] \in Whitespace
        /\ \A k \in (Len(s) - b + 1)..Len(s) : s[k] \in Whitespace
        /\ t # <<>> => (t[1] \notin Whitespace /\ t[Len(t)] \notin Whitespace)

EqualTrimmed(u, v) ==
    \E a \in 1..(Len(u) + 1), b \in 0..Len(u) :
        /\ IsTrimOf(SubSeq(u, a, b), u)
        /\ IsTrimOf(SubSeq(u, a, b), v)

\* the rows of the joined table that come from row k of the input
RowsOf(k) == {j \in 1..Len(joined) : joined[j].index = k}

\* C8: in the table join_cities_to_states returns, state_match of a row is
\* true exactly when the wiki state label and the polygon's state name are
\* both non-null and equal, case-sensitively, after trimming the whitespace
\* around each; the rows with state_match false are reported (the mismatch
\* listing is printed exactly when there is one) and stay in the table: every
\* input row still has its rows there.
C8_StateMatchIffTrimmedEqual ==
    Returned =>
        /\ \A j \in 1..Len(joined) :
              joined[j].state_match =
                 (/\ joined[j].state_from_wiki # None
                  /\ joined[j].state_name # None
                  /\ EqualTrimmed(joined[j].state_from_wiki,
                                  joined[j].state_name))
        /\ \A k \in 1..Len(cities_gdf) : RowsOf(k) # {}
        /\ Logged("Found state name mismatches") <=>
              \E j \in 1..Len(joined) : ~joined[j].state_match

\* C8 witness: a returned table whose first row matches only thanks to the
\* trimming and whose second row, both sides present, differs and is kept
C8_Witness ==
    /\ pc = "joined"
    /\ Len(joined) = 2
    /\ joined[1].state_match
    /\ joined[1].state_from_wiki # joined[1].state_name
    /\ ~joined[2].state_match
    /\ joined[2].state_from_wiki # None
    /\ joined[2].state_name # None

\* the polygons of the file that the territory filter keeps
Kept == {m \in 1..Len(cache) : cache[m].STUSPS \notin {AK, HI, PR}}

\* the kept polygons that contain the point of input row k
Containing(k) ==
    {m \in Kept : Within(cities_gdf[k].geometry, cache[m].geometry)}

\* no two kept polygons share interior points
NonOverlapping ==
    \A m, n \in Kept :
        m # n =>
            LET a == cache[m].geometry
                b == cache[n].geometry
            IN  \/ a.x2 <= b.x1 \/ b.x2 <= a.x1
                \/ a.y2 <= b.y1 \/ b.y2 <= a.y1

\* C9: the join is a left join on point-within-polygon: every input point
\* has a row in the output; when the polygons do not overlap each input
\* point has exactly one row, which carries the name and abbreviation of
\* the polygon containing the point if there is one, and null name, null
\* abbreviation and state_match false if no polygon kept by the territory
\* filter contains it.
C9_LeftJoinWithin ==
    Returned =>
        /\ \A k \in 1..Len(cities_gdf) :
              /\ RowsOf(k) # {}
              /\ \A j \in RowsOf(k) :
                    joined[j].geometry = cities_gdf[k].geometry
        /\ NonOverlapping =>
              \A k \in 1..Len(cities_gdf) :
                  /\ Cardinality(RowsOf(k)) = 1
                  /\ \A j \in RowsOf(k) :
                        IF Containing(k) = {}
                        THEN /\ joined[j].state_name = None
                             /\ joined[j].state_abbrev = None
                             /\ joined[j].state_match = FALSE
                        ELSE \E m \in Containing(k) :
                                /\ joined[j].state_name = cache[m].NAME
                                /\ joined[j].state_abbrev = cache[m].STUSPS

\* C9 witness: under non-overlapping polygons, a point inside a state and a
\* point inside a filtered territory, one row each, the second with nulls
C9_Witness ==
    /\ pc = "joined"
    /\ NonOverlapping
    /\ Len(cities_gdf) = 2
    /\ Len(joined) = 2
    /\ joined[1].state_name # None
    /\ joined[2].state_name = None
    /\ \E m \in 1..Len(cache) :
          /\ m \notin Kept
          /\ Within(cities_gdf[2].geometry, cache[m].geometry)

---------------------------------------------------------------------------
(* Properties of the distribution analyzer                                 *)

RECURSIVE SumOfCounts(_)
SumOfCounts(table) ==
    IF Len(table) = 0 THEN 0
    ELSE SumOfCounts(SubSeq(table, 1, Len(table) - 1)) + table[Len(table)].count

\* the distinct (state_name, state_abbrev) pairs of the joined rows, the
\* null pair of the unmatched rows among them
DistinctPairs ==
    {<<joined[k].state_name, joined[k].state_abbrev>> : k \in 1..Len(joined)}

OnePerPair(pairs) ==
    /\ Len(state_counts) = Cardinality(pairs)
    /\ \A g \in pairs :
          \E k \in 1..Len(state_counts) :
              <<state_counts[k].state_name, state_counts[k].state_abbrev>> = g

NonIncreasing ==
    \A k \in 1..(Len(state_counts) - 1) :
        state_counts[k].count >= state_counts[k + 1].count

\* C10 as claimed: for every joined table, those with rows of null
\* state_name/state_abbrev included, the counts analyze_cities_distribution
\* returns sum to the number of joined rows, there is one output row per
\* distinct (state_name, state_abbrev) pair, and the rows are in
\* non-increasing order of count.
C10_CountsSumToJoinedRows ==
    pc = "analyzed" =>
        /\ SumOfCounts(state_counts) = Len(joined)
        /\ OnePerPair(DistinctPairs)
        /\ NonIncreasing

---------------------------------------------------------------------------
(* Properties of the boundary file's cache                                 *)

\* data/us_states.zip is there
FilePresent == cache # <<>>

\* a step of a call that finds the file present requests no download and
\* leaves the file as it is
NoDownloadOncePresent ==
    FilePresent => (downloads' = downloads /\ cache' = cache)

\* C11 as claimed: over any sequence of calls of join_cities_to_states the
\* boundary file is downloaded only when data/us_states.zip does not exist
\* (once it exists no later call requests a download or rewrites it), so
\* that any two consecutive calls issue at most one download in total.
C11_AtMostOneDownloadInTwoCalls ==
    /\ [][NoDownloadOncePresent]_vars
    /\ [](calls <= 2 => downloads <= 1)

\* C11 amended: once the file exists no later call requests a download or
\* rewrites the file; a call requests at most one download, and a call that
\* downloads and returns has left the file, so a second download by the next
\* call happens only after a call whose download raised before the file was
\* written.
C11_DownloadOnlyWhenAbsent ==
    [][/\ NoDownloadOncePresent
       /\ downloads' # downloads =>
             /\ downloads' = downloads + 1
             /\ calls' = calls + 1
             /\ ~FilePresent
             /\ (pc' = "joined" \/ exc' # "RequestException") =>
                   cache' # <<>>]_vars

\* C11 witness: two calls, the first downloaded and wrote the file, the
\* second read it without a download
C11_Witness ==
    /\ calls = 2
    /\ downloads = 1
    /\ FilePresent
    /\ pc = "joined"
    /\ Len(log) >= 1
    /\ log[1] = "Downloading US states data"

---------------------------------------------------------------------------
(* Properties of the section scan                                          *)

\* the lines that are the "United States" third-level heading
USHeadingLines(ls) == {h \in 1..Len(ls) : ls[h] = US_HEADING}

FirstUSHeading(ls) ==
    CHOOSE h \in USHeadingLines(ls) : \A g \in USHeadingLines(ls) : h <= g

\* the heading lines after the first "United States" heading, read the way
\* that asks least of the scan: a heading line is a line that starts with
\* three or more "="; a later "United States" heading is one of them
TerminatingLines(ls) ==
    {e \in 1..Len(ls) :
        e > FirstUSHeading(ls) /\ StartsWith(ls[e], SECTION_MARK)}

\* C12 as claimed: entries come only from lines after the first "United
\* States" third-level heading and before the next heading line after it;
\* no line before the heading or after the terminating heading gives an
\* entry, collection never resumes once ended (a later "United States"
\* heading included), and a markup without the heading gives an empty list.
C12_EntriesOnlyInsideFirstSection ==
    pc = "parsed" =>
        IF USHeadingLines(lines) = {}
        THEN cities = <<>> /\ emitted = <<>>
        ELSE \A j \in 1..Len(emitted) :
                /\ emitted[j] > FirstUSHeading(lines)
                /\ \A e \in TerminatingLines(lines) : emitted[j] < e

---------------------------------------------------------------------------
(* Properties of the template conversion                                   *)

\* degrees + minutes/60 + seconds/3600, in units of 1/3600 degree
Magnitude(d, m, sec) == 3600 * d + 60 * m + sec

\* C13: for a coord template with fields (latD, latM, latS, latH, lonD,
\* lonM, lonS, lonH) the resolved latitude is latD + latM/60 + latS/3600,
\* negated exactly when latH is S in either letter case, and the resolved
\* longitude is lonD + lonM/60 + lonS/3600, negated exactly when lonH is W
\* in either letter case; N and E (and any other letter) leave the sign as
\* it is.
C13_DegreesMinutesSecondsSigned ==
    pc = "resolved" =>
        /\ Len(results) = 1
        /\ results[1].lat =
              IF server.latH \in {"S", "s"}
              THEN 0 - Magnitude(server.latD, server.latM, server.latS)
              ELSE Magnitude(server.latD, server.latM, server.latS)
        /\ results[1].lon =
              IF server.lonH \in {"W", "w"}
              THEN 0 - Magnitude(server.lonD, server.lonM, server.lonS)
              ELSE Magnitude(server.lonD, server.lonM, server.lonS)

\* C13 witness: 39|55|0|N|83|48|0|W resolved to 39 55/60 degrees north
\* (143700/3600, about 39.9167) and 83 48/60 degrees west (-301680/3600,
\* -83.8)
C13_Witness ==
    /\ pc = "resolved"
    /\ server = [latD |-> 39, latM |-> 55, latS |-> 0, latH |-> "N",
                 lonD |-> 83, lonM |-> 48, lonS |-> 0, lonH |-> "W"]
    /\ results = <<[lat |-> 143700, lon |-> 0 - 301680]>>

=============================================================================
